---- MODULE Spec2Model ----
(***************************************************************************)
(* Model of the two services of code-diagram-creator's FastAPI backend:    *)
(*   app/services/llm_service.py      complete_text and its vendor paths   *)
(*   app/services/mermaid_service.py  create_mermaid_diagram               *)
(*                                                                         *)
(* Text is modelled as a sequence of one-character strings; a formatted    *)
(* message (an f-string) as the sequence of its pieces.  An exception is   *)
(* modelled by the name of its class, and an except clause by the class    *)
(* hierarchy (IsInstance).                                                 *)
(***************************************************************************)
EXTENDS Integers, Sequences, FiniteSets, TLC

VARIABLES
    \* ---- llm_service.py: complete_text, one slot per concurrent caller
    pc,          \* caller -> position inside complete_text
    args,        \* caller -> the arguments of the call in progress
    outcome,     \* caller -> how the call ended (returned text / raised)
    consulted,   \* caller -> limiter.ratelimit(...) was evaluated in this call
    entered,     \* caller -> the vendor paths entered in this call
    io,          \* caller -> what the environment answered in this call
    bucket,      \* the shared limiter's bucket: items in the current window
    windowCalls, \* vendor paths entered in the current window
    calls,       \* complete_text calls started so far
    \* ---- llm_service.py: format_anthropic_prompt, called on its own
    fpc, messages, prompt,
    \* ---- mermaid_service.py: create_mermaid_diagram, one slot per call
    rpc,         \* call -> position inside create_mermaid_diagram
    script,      \* call -> mermaid_script.mermaid_script
    temp_in,     \* call -> [name, open, buf] of the input file object
    temp_out,    \* call -> [name, open] of the output file object
    child,       \* call -> what the mmdc child process was started with
    process,     \* call -> what the mmdc child process did
    rresult,     \* call -> the response returned / the exception raised
    fs,          \* the temporary directory: file name -> content
    created      \* every file name NamedTemporaryFile has handed out

llmVars == <<pc, args, outcome, consulted, entered, io, bucket, windowCalls, calls>>
fmtVars == <<fpc, messages, prompt>>
renVars == <<rpc, script, temp_in, temp_out, child, process, rresult, fs, created>>
vars == <<llmVars, fmtVars, renVars>>

----------------------------------------------------------------------------
\* Bounds of the model
NumCallers == 2      \* concurrent callers of complete_text
MaxCalls == 2        \* complete_text calls in one run (all in one window)
MaxMsgs == 2         \* longest message list
NumRenders == 2      \* calls of create_mermaid_diagram in one run

Callers == 1..NumCallers
Renders == 1..NumRenders

----------------------------------------------------------------------------
\* Exceptions

\* The class each exception class derives from.  LLMException, OpenAIException
\* and AnthropicException are the module's own classes, each a direct subclass
\* of Exception; the others are what the libraries and the builtins raise.
Parent(cls) ==
    CASE cls = "LLMException" -> "Exception"
      [] cls = "OpenAIException" -> "Exception"
      [] cls = "AnthropicException" -> "Exception"
      [] cls = "OpenAIError" -> "Exception"
      [] cls = "InvalidRequestError" -> "OpenAIError"
      [] cls = "APIConnectionError" -> "OpenAIError"
      [] cls = "APIStatusError" -> "Exception"
      [] cls = "ValueError" -> "Exception"
      [] cls = "KeyError" -> "Exception"
      [] cls = "InvalidArgument" -> "Exception"
      [] OTHER -> "BaseException"

RECURSIVE IsInstance(_, _)
\* `except cls` catches an exception of class exc
IsInstance(exc, cls) ==
    IF exc = cls THEN TRUE
    ELSE IF exc = "BaseException" THEN FALSE
    ELSE IsInstance(Parent(exc), cls)

Return(text) == [kind |-> "return", val |-> text]
Raise(exc) == [kind |-> "raise", val |-> <<exc>>]
None == [kind |-> "none", val |-> <<>>]

----------------------------------------------------------------------------
\* Text

HUMAN_PROMPT == <<"\n", "\n", "H", "u", "m", "a", "n", ":">>
AI_PROMPT == <<"\n", "\n", "A", "s", "s", "i", "s", "t", "a", "n", "t", ":">>

IsSpace(ch) == ch \in {" ", "\n", "\t"}

RECURSIVE LStrip(_)
LStrip(s) == IF s # <<>> /\ IsSpace(Head(s)) THEN LStrip(Tail(s)) ELSE s

RECURSIVE RStrip(_)
RStrip(s) ==
    IF s # <<>> /\ IsSpace(s[Len(s)]) THEN RStrip(SubSeq(s, 1, Len(s) - 1)) ELSE s

\* str.strip()
Strip(s) == RStrip(LStrip(s))

----------------------------------------------------------------------------
\* format_anthropic_prompt

Roles == {"user", "assistant", "system"}
Contents == {<<>>, <<"h", "i">>, <<"h", "e", "l", "l", "o">>}
Message == [role : Roles, content : Contents]

\* the loop body without the space of the f-strings, and with an else branch
FormatStepNoSpace(acc, message) ==
    IF message.role = "user" THEN acc \o HUMAN_PROMPT \o message.content
    ELSE IF message.role = "assistant" THEN acc \o AI_PROMPT \o message.content
    ELSE acc \o message.content

\* one pass of the loop body: the prompt after `message` is handled
FormatStep(acc, message) ==
    IF message.role = "user" THEN acc \o HUMAN_PROMPT \o <<" ">> \o message.content
    ELSE IF message.role = "assistant" THEN acc \o AI_PROMPT \o <<" ">> \o message.content
    ELSE acc

RECURSIVE FormatLoop(_, _, _)
\* the for loop, from message i on, with the prompt built so far
FormatLoop(acc, msgs, i) ==
    IF i > Len(msgs) THEN acc ELSE FormatLoop(FormatStep(acc, msgs[i]), msgs, i + 1)

format_anthropic_prompt(msgs) == FormatLoop(<<>>, msgs, 1)

RECURSIVE SeqsUpTo(_, _)
SeqsUpTo(S, n) ==
    IF n = 0 THEN {<<>>}
    ELSE LET shorter == SeqsUpTo(S, n - 1)
         IN shorter \cup {Append(s, x) : s \in {t \in shorter : Len(t) = n - 1}, x \in S}

MessageLists == SeqsUpTo(Message, MaxMsgs)

----------------------------------------------------------------------------
\* complete_text

\* validate_max_tokens (app/utils/llm_utils.py): the accepted range
MinTokens == 1
MaxTokens == 2
ValidMaxTokens(n) == MinTokens <= n /\ n <= MaxTokens
\* validate_max_tokens(max_tokens): returns, or fails with InvalidArgument
validate_max_tokens(n) == IF ValidMaxTokens(n) THEN None ELSE Raise("InvalidArgument")

\* app/config.py
ANTHROPIC_AI_VENDOR == "anthropic"

\* rate_limits = (RequestRate(60, Duration.MINUTE),)
RateLimit == 60

TokenInputs == 0..(MaxTokens + 1)
Vendors == {ANTHROPIC_AI_VENDOR, "openai", "unknown"}
Callbacks == {"none", "callback"}
CallArgs == [max_tokens : TokenInputs, vendor : Vendors, callback : Callbacks]
NoArgs == [max_tokens |-> 0, vendor |-> "unknown", callback |-> "none"]

\* What the hosted endpoints and the caller's callback may do
Completions == {<<" ", "o", "k", "\n">>, <<>>}
AnthropicApiOutcomes == {Return(t) : t \in Completions} \cup {Raise("APIStatusError")}
EnvKeys == {"set", "missing"}
OpenAICreateOutcomes == {"OpenAIObject", "generator", "InvalidRequestError", "APIConnectionError"}
CallbackOutcomes == {Return(<<"o", "k">>), Raise("ValueError"), Raise("KeyError")}

NoIO == [env |-> "", api |-> None, create |-> "", cb |-> None]

Sentinel == <<"Response doesn't have choices or choices have no text.">>

\* the body of complete_anthropic_text's try block
AnthropicTry(env, api) ==
    IF env = "missing" THEN Raise("KeyError")       \* os.environ["ANTHROPIC_API_KEY"]
    ELSE IF api.kind = "raise" THEN api             \* completions.create raised
    ELSE Return(Strip(api.val))                     \* response.completion.strip()

\* its except clause
AnthropicExcept(o) ==
    IF o.kind = "raise" /\ IsInstance(o.val[1], "AnthropicException")
    THEN Return(<<"Anthropic Client Error: ", o.val[1]>>)
    ELSE o

complete_anthropic_text(env, api) == AnthropicExcept(AnthropicTry(env, api))

\* the body of complete_openai_text's try block
OpenAITry(create, callback, cb) ==
    IF IsInstance(create, "OpenAIError") THEN Raise(create)  \* ChatCompletion.create raised
    ELSE IF create # "OpenAIObject" THEN Raise("ValueError") \* "Invalid Response"
    ELSE IF callback # "none" THEN cb                        \* return callback(response)
    ELSE Return(Sentinel)

\* its except clauses, in order
OpenAIExcept(o) ==
    IF o.kind # "raise" THEN o
    ELSE IF IsInstance(o.val[1], "OpenAIError")
    THEN Return(<<"OpenAI Client Error: ", o.val[1]>>)
    ELSE IF IsInstance(o.val[1], "ValueError")
    THEN Return(<<"OpenAI Client Value error: ", o.val[1]>>)
    ELSE IF IsInstance(o.val[1], "OpenAIException")
    THEN Return(<<"complete_openai_text Exception: ", o.val[1]>>)
    ELSE o

complete_openai_text(create, callback, cb) == OpenAIExcept(OpenAITry(create, callback, cb))

\* complete_text's except clause around the limiter and the vendor path
CompleteTextExcept(o) ==
    IF o.kind = "raise" /\ IsInstance(o.val[1], "LLMException")
    THEN Return(<<"Error completing text: ", o.val[1]>>)
    ELSE o

\* the validator's failure is not acted on
AfterValidateIgnored(v) == "limit"

\* where complete_text goes after validate_max_tokens(max_tokens)
AfterValidate(v) == IF v.kind = "raise" THEN "done" ELSE "limit"

\* the two branches of the dispatch swapped
RouteSwapped(vendor) == IF vendor = ANTHROPIC_AI_VENDOR THEN "openai" ELSE "anthropic"

\* is_anthropic = vendor == ANTHROPIC_AI_VENDOR, and the path it selects
Route(vendor) == IF vendor = ANTHROPIC_AI_VENDOR THEN "anthropic" ELSE "openai"

\* limiter.ratelimit("complete_text") as a bare expression statement: it builds
\* the limiter's decorator/context manager for that identity and drops it; the
\* bucket is only touched when that object is entered or applied.
ratelimit(b) == b

\* a caller calls complete_text(max_tokens, model, vendor, messages, functions,
\* callback); all calls of a run fall into one window of the limiter
Call(c) ==
    /\ pc[c] \in {"idle", "done"}
    /\ calls < MaxCalls
    /\ \E a \in CallArgs : args' = [args EXCEPT ![c] = a]
    /\ pc' = [pc EXCEPT ![c] = "validate"]
    /\ outcome' = [outcome EXCEPT ![c] = None]
    /\ consulted' = [consulted EXCEPT ![c] = FALSE]
    /\ entered' = [entered EXCEPT ![c] = {}]
    /\ calls' = calls + 1
    /\ io' = [io EXCEPT ![c] = NoIO]
    /\ UNCHANGED <<bucket, windowCalls, fmtVars, renVars>>

\* validate_max_tokens(max_tokens), outside the try block
Validate(c) ==
    /\ pc[c] = "validate"
    /\ LET v == validate_max_tokens(args[c].max_tokens)
       IN /\ pc' = [pc EXCEPT ![c] = AfterValidate(v)]
          /\ outcome' = [outcome EXCEPT ![c] = v]
    /\ UNCHANGED <<args, consulted, entered, io, bucket, windowCalls, calls, fmtVars, renVars>>

\* limiter.ratelimit("complete_text")
Limit(c) ==
    /\ pc[c] = "limit"
    /\ consulted' = [consulted EXCEPT ![c] = TRUE]
    /\ bucket' = ratelimit(bucket)
    /\ pc' = [pc EXCEPT ![c] = Route(args[c].vendor)]
    /\ UNCHANGED <<args, outcome, entered, io, windowCalls, calls, fmtVars, renVars>>

\* return complete_anthropic_text(...), through complete_text's except clause.
\* model, max_tokens and the prompt formatted from messages go to the hosted
\* endpoint, whose answer is any of AnthropicApiOutcomes.
Anthropic(c) ==
    /\ pc[c] = "anthropic"
    /\ \E env \in EnvKeys :
          \E api \in (IF env = "set" THEN AnthropicApiOutcomes ELSE {None}) :
             /\ outcome' = [outcome EXCEPT ![c] =
                                CompleteTextExcept(complete_anthropic_text(env, api))]
             /\ io' = [io EXCEPT ![c] = [NoIO EXCEPT !.env = env, !.api = api]]
    /\ entered' = [entered EXCEPT ![c] = @ \cup {"anthropic"}]
    /\ windowCalls' = windowCalls + 1
    /\ pc' = [pc EXCEPT ![c] = "done"]
    /\ UNCHANGED <<args, consulted, bucket, calls, fmtVars, renVars>>

\* return complete_openai_text(...), through complete_text's except clause
OpenAI(c) ==
    /\ pc[c] = "openai"
    /\ \E create \in OpenAICreateOutcomes :
          \E cb \in (IF create = "OpenAIObject" /\ args[c].callback # "none"
                     THEN CallbackOutcomes ELSE {None}) :
             /\ outcome' = [outcome EXCEPT ![c] =
                                CompleteTextExcept(complete_openai_text(create, args[c].callback, cb))]
             /\ io' = [io EXCEPT ![c] = [NoIO EXCEPT !.create = create, !.cb = cb]]
    /\ entered' = [entered EXCEPT ![c] = @ \cup {"openai"}]
    /\ windowCalls' = windowCalls + 1
    /\ pc' = [pc EXCEPT ![c] = "done"]
    /\ UNCHANGED <<args, consulted, bucket, calls, fmtVars, renVars>>

----------------------------------------------------------------------------
\* create_mermaid_diagram

\* Characters are "g" (ASCII), "U+00E9" (two bytes in UTF-8) and "U+D800" (a
\* lone surrogate, which UTF-8 cannot encode); bytes are named likewise.
RECURSIVE Encode(_)
\* str.encode(): the UTF-8 bytes, or UnicodeEncodeError
Encode(text) ==
    IF text = <<>> THEN [ok |-> TRUE, bytes |-> <<>>]
    ELSE LET rest == Encode(Tail(text))
             ch == Head(text)
         IN IF ch = "U+D800" \/ ~rest.ok THEN [ok |-> FALSE, bytes |-> <<>>]
            ELSE IF ch = "U+00E9" THEN [ok |-> TRUE, bytes |-> <<"c3", "a9">> \o rest.bytes]
            ELSE [ok |-> TRUE, bytes |-> <<ch>> \o rest.bytes]

RECURSIVE Decode(_)
\* bytes.decode(): the text, or UnicodeDecodeError
Decode(bytes) ==
    IF bytes = <<>> THEN [ok |-> TRUE, text |-> <<>>]
    ELSE IF Head(bytes) = "c3"
    THEN IF Len(bytes) >= 2 /\ bytes[2] = "a9"
         THEN LET rest == Decode(SubSeq(bytes, 3, Len(bytes)))
              IN IF rest.ok THEN [ok |-> TRUE, text |-> <<"U+00E9">> \o rest.text]
                 ELSE [ok |-> FALSE, text |-> <<>>]
         ELSE [ok |-> FALSE, text |-> <<>>]
    ELSE IF Head(bytes) \in {"a9", "ff"} THEN [ok |-> FALSE, text |-> <<>>]
    ELSE LET rest == Decode(Tail(bytes))
         IN IF rest.ok THEN [ok |-> TRUE, text |-> <<Head(bytes)>> \o rest.text]
            ELSE [ok |-> FALSE, text |-> <<>>]

Scripts == {<<"g", "U+00E9">>, <<"U+D800">>}
ParseError == <<"p", "a", "r", "s", "e", " ", "e", "r", "r", "o", "r">>
Stdouts == {<<"o", "k">>, <<"ff">>}
Stderrs == {ParseError, <<"ff">>}

\* the SVG mmdc renders from the bytes of its input file
Svg(input) == <<"<svg>">> \o input \o <<"</svg>">>

Names == 1..(2 * NumRenders)
NoFile == [name |-> 0, open |-> FALSE, buf |-> <<>>]
NoChild == [started |-> FALSE, i |-> 0, o |-> 0, input |-> <<>>, closed |-> FALSE]
NoProcess == [returncode |-> 0 - 1, stdout |-> <<>>, stderr |-> <<>>, wrote |-> FALSE]
NoResult == [kind |-> "none", cls |-> "", text |-> <<>>, path |-> 0, media_type |-> ""]

\* what the mmdc child may do: its exit status, its output, whether it wrote the SVG
ProcessOutcomes ==
    [returncode : {0}, stdout : Stdouts, stderr : {<<>>, <<"ff">>}, wrote : BOOLEAN]
    \cup [returncode : {1}, stdout : {<<>>}, stderr : Stderrs, wrote : {FALSE}]

\* FileResponse(temp_out.name, media_type="image/svg+xml")
FileResponse(path) ==
    [kind |-> "response", cls |-> "", text |-> <<>>, path |-> path, media_type |-> "image/svg+xml"]

RaiseR(cls, text) ==
    [kind |-> "raise", cls |-> cls, text |-> text, path |-> 0, media_type |-> ""]

\* except subprocess.CalledProcessError as err: its stderr is decoded for the
\* log and the message; an error raised here leaves the function as it is
ExceptCalledProcessError(stderr) ==
    LET d == Decode(stderr)
    IN IF d.ok THEN RaiseR("MermaidCliError", <<"Mermaid CLI failed: ">> \o d.text)
       ELSE RaiseR("UnicodeDecodeError", <<>>)

\* except Exception as err
ExceptException(cls) ==
    RaiseR("MermaidUnexpectedError", <<"Unexpected error occurred: ", cls>>)

\* the two print(...decode()) lines and the return, after the child exited 0
AfterRun(p, out) ==
    IF Decode(p.stdout).ok /\ Decode(p.stderr).ok THEN FileResponse(out)
    ELSE ExceptException("UnicodeDecodeError")

\* subprocess.run(..., check=True) returned or raised CalledProcessError
RunResult(p, out) ==
    IF p.returncode # 0 THEN ExceptCalledProcessError(p.stderr) ELSE AfterRun(p, out)

\* the with statement closes both file objects on the way out
Closed(f) == [f EXCEPT !.open = FALSE]

\* an exit path that removes the call's temporary files
AfterExitCleanup(files, r) ==
    [m \in DOMAIN files \ {temp_in[r].name, temp_out[r].name} |-> files[m]]

\* the files in the directory after an exit path of the call: delete=False,
\* and no exit path removes a file
AfterExit(files, r) == files

\* NamedTemporaryFile opens a file under a name that is not in the directory
\* (O_EXCL); names are opaque and interchangeable, so the model takes the
\* least name not in the directory.
NewName(files) ==
    CHOOSE n \in Names \ DOMAIN files : \A m \in Names \ DOMAIN files : n <= m

\* the request handler is called with a script
Render(r) ==
    /\ rpc[r] = "idle"
    /\ \E s \in Scripts : script' = [script EXCEPT ![r] = s]
    /\ rpc' = [rpc EXCEPT ![r] = "temp_in"]
    /\ UNCHANGED <<temp_in, temp_out, child, process, rresult, fs, created, llmVars, fmtVars>>

\* an exit of the call through `except Exception`
Unexpected(r, cls) ==
    /\ rpc' = [rpc EXCEPT ![r] = "done"]
    /\ rresult' = [rresult EXCEPT ![r] = ExceptException(cls)]
    /\ temp_in' = [temp_in EXCEPT ![r] = Closed(@)]
    /\ temp_out' = [temp_out EXCEPT ![r] = Closed(@)]
    /\ fs' = AfterExit(fs, r)

\* NamedTemporaryFile(delete=False, suffix=".mmd") as temp_in
CreateIn(r) ==
    /\ rpc[r] = "temp_in"
    /\ \/ LET n == NewName(fs) IN
            /\ fs' = [m \in DOMAIN fs \cup {n} |-> IF m = n THEN <<>> ELSE fs[m]]
            /\ created' = created \cup {n}
            /\ temp_in' = [temp_in EXCEPT ![r] = [name |-> n, open |-> TRUE, buf |-> <<>>]]
            /\ rpc' = [rpc EXCEPT ![r] = "temp_out"]
            /\ UNCHANGED <<temp_out, rresult>>
       \/ Unexpected(r, "OSError") /\ UNCHANGED created
    /\ UNCHANGED <<script, child, process, llmVars, fmtVars>>

\* NamedTemporaryFile(delete=False, suffix=".svg") as temp_out
CreateOut(r) ==
    /\ rpc[r] = "temp_out"
    /\ \/ LET n == NewName(fs) IN
            /\ fs' = [m \in DOMAIN fs \cup {n} |-> IF m = n THEN <<>> ELSE fs[m]]
            /\ created' = created \cup {n}
            /\ temp_out' = [temp_out EXCEPT ![r] = [name |-> n, open |-> TRUE, buf |-> <<>>]]
            /\ rpc' = [rpc EXCEPT ![r] = "write"]
            /\ UNCHANGED <<temp_in, rresult>>
       \/ Unexpected(r, "OSError") /\ UNCHANGED created
    /\ UNCHANGED <<script, child, process, llmVars, fmtVars>>

\* temp_in.write(mermaid_script.mermaid_script.encode()): into the file
\* object's buffer
Write(r) ==
    /\ rpc[r] = "write"
    /\ LET e == Encode(script[r])
       IN IF e.ok
          THEN /\ temp_in' = [temp_in EXCEPT ![r].buf = @ \o e.bytes]
               /\ rpc' = [rpc EXCEPT ![r] = "close_in"]
               /\ UNCHANGED <<temp_out, rresult, fs>>
          ELSE Unexpected(r, "UnicodeEncodeError")
    /\ UNCHANGED <<script, child, process, created, llmVars, fmtVars>>

\* temp_in.close(): the buffer is flushed to the file
CloseIn(r) ==
    /\ rpc[r] = "close_in"
    /\ \/ /\ fs' = [fs EXCEPT ![temp_in[r].name] = @ \o temp_in[r].buf]
          /\ temp_in' = [temp_in EXCEPT ![r] = [@ EXCEPT !.open = FALSE, !.buf = <<>>]]
          /\ rpc' = [rpc EXCEPT ![r] = "close_out"]
          /\ UNCHANGED <<temp_out, rresult>>
       \/ Unexpected(r, "OSError")
    /\ UNCHANGED <<script, child, process, created, llmVars, fmtVars>>

\* temp_out.close()
CloseOut(r) ==
    /\ rpc[r] = "close_out"
    /\ temp_out' = [temp_out EXCEPT ![r] = Closed(@)]
    /\ rpc' = [rpc EXCEPT ![r] = "run"]
    /\ UNCHANGED <<script, temp_in, child, process, rresult, fs, created, llmVars, fmtVars>>

\* subprocess.run moved above temp_in.close()
RunAtBeforeClose == "close_in"

\* the position from which subprocess.run is reached
RunAt == "run"

\* subprocess.run(["mmdc", "-i", temp_in.name, "-o", temp_out.name], check=True,
\* capture_output=True) and everything after it
Run(r) ==
    /\ rpc[r] = RunAt
    /\ \/ \E p \in ProcessOutcomes :
            /\ child' = [child EXCEPT ![r] =
                            [started |-> TRUE, i |-> temp_in[r].name, o |-> temp_out[r].name,
                             input |-> fs[temp_in[r].name],
                             closed |-> ~temp_in[r].open /\ ~temp_out[r].open]]
            /\ process' = [process EXCEPT ![r] = p]
            /\ fs' = AfterExit(IF p.wrote
                               THEN [fs EXCEPT ![temp_out[r].name] = Svg(fs[temp_in[r].name])]
                               ELSE fs, r)
            /\ rresult' = [rresult EXCEPT ![r] = RunResult(p, temp_out[r].name)]
            /\ rpc' = [rpc EXCEPT ![r] = "done"]
            /\ temp_in' = [temp_in EXCEPT ![r] = Closed(@)]
            /\ temp_out' = [temp_out EXCEPT ![r] = Closed(@)]
       \/ \* mmdc is not installed: FileNotFoundError, no child
          Unexpected(r, "FileNotFoundError") /\ UNCHANGED <<child, process>>
    /\ UNCHANGED <<script, created, llmVars, fmtVars>>

----------------------------------------------------------------------------
\* format_anthropic_prompt(messages), called on its own

Format ==
    /\ fpc = "ready"
    /\ prompt' = format_anthropic_prompt(messages)
    /\ fpc' = "done"
    /\ UNCHANGED <<messages, llmVars, renVars>>

----------------------------------------------------------------------------
\* Specifications

InitLLM ==
    /\ pc = [c \in Callers |-> "idle"]
    /\ args = [c \in Callers |-> NoArgs]
    /\ outcome = [c \in Callers |-> None]
    /\ consulted = [c \in Callers |-> FALSE]
    /\ entered = [c \in Callers |-> {}]
    /\ io = [c \in Callers |-> NoIO]
    /\ bucket = 0
    /\ windowCalls = 0
    /\ calls = 0

InitRender ==
    /\ rpc = [r \in Renders |-> "idle"]
    /\ script = [r \in Renders |-> <<>>]
    /\ temp_in = [r \in Renders |-> NoFile]
    /\ temp_out = [r \in Renders |-> NoFile]
    /\ child = [r \in Renders |-> NoChild]
    /\ process = [r \in Renders |-> NoProcess]
    /\ rresult = [r \in Renders |-> NoResult]
    /\ fs = <<>>
    /\ created = {}

InitFormatIdle == fpc = "idle" /\ messages = <<>> /\ prompt = <<>>

\* the completion dispatcher under concurrent callers
Init == InitLLM /\ InitRender /\ InitFormatIdle

Next == \E c \in Callers : Call(c) \/ Validate(c) \/ Limit(c) \/ Anthropic(c) \/ OpenAI(c)

Spec == Init /\ [][Next]_vars

\* the diagram renderer under concurrent calls
NextRender ==
    \E r \in Renders : Render(r) \/ CreateIn(r) \/ CreateOut(r) \/ Write(r) \/ CloseIn(r)
                          \/ CloseOut(r) \/ Run(r)

SpecRender == Init /\ [][NextRender]_vars

\* format_anthropic_prompt on every message list within the bounds
InitFormat ==
    /\ InitLLM /\ InitRender
    /\ fpc = "ready" /\ messages \in MessageLists /\ prompt = <<>>

NextFormat == Format

SpecFormat == InitFormat /\ [][NextFormat]_vars

----------------------------------------------------------------------------
\* Properties

Finished(c) == pc[c] = "done"
InPath(c) == pc[c] \in {"anthropic", "openai"}

\* C1: every call of complete_text, whatever fails during it (validation,
\* limiter, vendor client error, malformed response), ends by returning a
\* text; none ends with an exception raised to the caller.
C1_NeverRaises == \A c \in Callers : Finished(c) => outcome[c].kind = "return"

\* C2: a call whose max_tokens the validator rejects ends at the validation
\* failure: the limiter is not consulted and no vendor path is entered.
C2_InvalidEndsEarly ==
    \A c \in Callers :
        (pc[c] # "idle" /\ (args[c].max_tokens < MinTokens \/ args[c].max_tokens > MaxTokens))
        => /\ pc[c] \in {"validate", "done"}
           /\ ~consulted[c]
           /\ entered[c] = {}
           /\ io[c] = NoIO
           /\ Finished(c) => outcome[c] = Raise("InvalidArgument")

C2_Witness ==
    \E c1, c2 \in Callers :
        /\ Finished(c1) /\ args[c1].max_tokens < MinTokens
        /\ Finished(c2) /\ args[c2].max_tokens > MaxTokens
        /\ outcome[c1] = Raise("InvalidArgument") /\ outcome[c2] = Raise("InvalidArgument")

\* C3: a call that reaches dispatch enters exactly one vendor path: the
\* Anthropic path and never the OpenAI path when vendor is the Anthropic
\* constant, the OpenAI path and never the Anthropic path for any other vendor.
C3_OnePath ==
    \A c \in Callers :
        LET path == IF args[c].vendor = "anthropic" THEN "anthropic" ELSE "openai"
        IN /\ InPath(c) => pc[c] = path /\ entered[c] = {}
           /\ (Finished(c) /\ consulted[c]) => entered[c] = {path}
           /\ ~consulted[c] => entered[c] = {}

C3_Witness ==
    \E c1, c2 \in Callers :
        /\ Finished(c1) /\ args[c1].vendor = ANTHROPIC_AI_VENDOR /\ entered[c1] = {"anthropic"}
        /\ Finished(c2) /\ args[c2].vendor = "unknown" /\ entered[c2] = {"openai"}

\* C4: every call that has passed the limiter has put one item into the
\* shared bucket before its vendor path is entered, and at most RateLimit
\* calls enter a vendor path within the window.
C4_LimiterApplied ==
    /\ bucket = windowCalls + Cardinality({c \in Callers : InPath(c)})
    /\ windowCalls <= RateLimit

\* C8: complete_openai_text always returns a text: the callback's result when
\* the endpoint answered and a callback was given, the sentinel when none was
\* given, and an error text on a client error, a response that is no response
\* object, or an error raised while the callback extracts the text.
C8_OpenAIReturnsText ==
    \A c \in Callers :
        (Finished(c) /\ "openai" \in entered[c])
        => /\ outcome[c].kind = "return"
           /\ (io[c].create = "OpenAIObject" /\ args[c].callback # "none"
               /\ io[c].cb.kind = "return") => outcome[c] = io[c].cb
           /\ (io[c].create = "OpenAIObject" /\ args[c].callback = "none")
               => outcome[c] = Return(Sentinel)
           /\ (io[c].create # "OpenAIObject" \/ io[c].cb.kind = "raise")
               => Len(outcome[c].val) = 2

\* the substring test: text t occurs in text s
Carries(s, t) == \E i \in 1..(Len(s) + 1) : SubSeq(s, i, i + Len(t) - 1) = t

\* C5: a failing call of create_mermaid_diagram ends in exactly one typed
\* failure: MermaidCliError carrying the child's stderr text when the child
\* exited non-zero, MermaidUnexpectedError carrying the cause otherwise.
C5_TypedFailure ==
    \A r \in Renders :
        (rpc[r] = "done" /\ rresult[r].kind = "raise")
        => IF child[r].started /\ process[r].returncode # 0
           THEN /\ rresult[r].cls = "MermaidCliError"
                /\ Decode(process[r].stderr).ok
                   => Carries(rresult[r].text, Decode(process[r].stderr).text)
           ELSE /\ rresult[r].cls = "MermaidUnexpectedError"
                /\ Len(rresult[r].text) = 2
                /\ rresult[r].text[1] = "Unexpected error occurred: "

\* C6: when the child exits 0 and has written the SVG, the call returns a
\* response of content type image/svg+xml whose body is the content of the
\* output file that was passed to the child with -o.
C6_SuccessReturnsSvg ==
    \A r \in Renders :
        (rpc[r] = "done" /\ child[r].started /\ process[r].returncode = 0 /\ process[r].wrote)
        => /\ rresult[r].kind = "response"
           /\ rresult[r].media_type = "image/svg+xml"
           /\ rresult[r].path = child[r].o
           /\ rresult[r].path \in DOMAIN fs
           /\ fs[rresult[r].path] = Svg(child[r].input)

\* the segment of one message
Segment(m) ==
    CASE m.role = "user" -> HUMAN_PROMPT \o <<" ">> \o m.content
      [] m.role = "assistant" -> AI_PROMPT \o <<" ">> \o m.content
      [] OTHER -> <<>>

RECURSIVE Segments(_)
\* the segments of a message list, in list order, with nothing between them
Segments(msgs) == IF msgs = <<>> THEN <<>> ELSE Segment(Head(msgs)) \o Segments(Tail(msgs))

HiHello == <<[role |-> "user", content |-> <<"h", "i">>],
             [role |-> "assistant", content |-> <<"h", "e", "l", "l", "o">>]>>
HiHelloPrompt ==
    <<"\n", "\n", "H", "u", "m", "a", "n", ":", " ", "h", "i",
      "\n", "\n", "A", "s", "s", "i", "s", "t", "a", "n", "t", ":", " ",
      "h", "e", "l", "l", "o">>

\* C7: format_anthropic_prompt returns the segments of the messages in list
\* order with no separator: marker, one space and the content for "user" and
\* "assistant", nothing for any other role; [{user,"hi"},{assistant,"hello"}]
\* gives "<HUMAN> hi<ASSISTANT> hello" and the empty list the empty text.
C7_PromptIsSegments ==
    fpc = "done"
    => /\ prompt = Segments(messages)
       /\ messages = HiHello => prompt = HiHelloPrompt
       /\ messages = <<>> => prompt = <<>>

C7_Witness ==
    /\ fpc = "done"
    /\ messages = <<[role |-> "system", content |-> <<"h", "i">>],
                    [role |-> "user", content |-> <<"h", "e", "l", "l", "o">>]>>
    /\ prompt = HUMAN_PROMPT \o <<" ", "h", "e", "l", "l", "o">>

NamesOf(r) == {temp_in[r].name, temp_out[r].name} \ {0}

\* C9: the child is started only after both temporary files were created
\* under names distinct from each other and from every other call's, the
\* whole script was written to the input file and both files were closed; the
\* child gets exactly those two paths as -i and -o.
C9_ChildAfterFiles ==
    /\ \A r \in Renders :
          child[r].started
          => /\ child[r].i = temp_in[r].name /\ child[r].o = temp_out[r].name
             /\ child[r].i \in created /\ child[r].o \in created
             /\ child[r].i # child[r].o
             /\ child[r].closed
             /\ Encode(script[r]).ok /\ child[r].input = Encode(script[r]).bytes
    /\ \A r1, r2 \in Renders : r1 # r2 => NamesOf(r1) \cap NamesOf(r2) = {}
    /\ \A r \in Renders : temp_out[r].name # 0 => temp_in[r].name \notin {0, temp_out[r].name}

C9_Witness ==
    /\ \A r \in Renders : child[r].started /\ rpc[r] = "done"
    /\ \E r \in Renders : process[r].returncode = 0
    /\ \E r \in Renders : process[r].returncode # 0

\* C10: no exit path deletes a temporary file: every file ever created is
\* still there, two for each call that got past file creation (one for a call
\* that failed between the two creations).
C10_FilesRemain ==
    /\ DOMAIN fs = created
    /\ \A r \in Renders :
          /\ NamesOf(r) \subseteq DOMAIN fs
          /\ temp_out[r].name # 0 => Cardinality(NamesOf(r)) = 2
    /\ Cardinality(DOMAIN fs) =
          2 * Cardinality({r \in Renders : temp_out[r].name # 0})
          + Cardinality({r \in Renders : temp_in[r].name # 0 /\ temp_out[r].name = 0})

C10_Witness ==
    /\ \A r \in Renders : rpc[r] = "done" /\ temp_out[r].name # 0
    /\ \E r \in Renders : rresult[r].kind = "response"
    /\ \E r \in Renders : rresult[r].kind = "raise"
    /\ Cardinality(DOMAIN fs) = 2 * NumRenders

====
